---- MODULE Spec2Model ----
(***************************************************************************)
(* Process supervisor of src-tauri/src/lib.rs: the registry                *)
(* AppState { bot: Mutex<BotState { process, status }> } and the commands  *)
(* start_bot, stop_bot (with its detached kill task), get_bot_status,      *)
(* quit_app, the tray "quit" handler and the auto-start task of run().     *)
(*                                                                         *)
(* A worker process is a number 1..MaxProcs (0 = no process, the None of   *)
(* Option<Child>).  Every handler first locks the registry mutex (one      *)
(* step, enabled only when the mutex is free) and then runs its critical   *)
(* section; a kill of a worker is a step of its own, because it is a       *)
(* blocking call that may never return.                                    *)
(***************************************************************************)
EXTENDS Integers, Sequences, FiniteSets, TLC

\* ---------------------------------------------------------------- bounds
NumThreads == 2
MaxProcs == 2
NumSubdirs == 1

\* threads that invoke commands (the UI); thread 0 is the auto-start task
Threads == 1 .. NumThreads
AutoThread == 0
AllThreads == {AutoThread} \cup Threads
Procs == 1 .. MaxProcs

\* candidate locations of bot.exe, in the order start_bot tries them:
\* 1 resource_dir/bot.exe, 2 exe_dir/bot.exe, 3 exe_dir/resources/bot.exe,
\* 4 exe_dir/_up_/dist/bot.exe, then for subdirectory s of exe_dir
\* 3 + 2s: s/bot.exe and 4 + 2s: s/dist/bot.exe
NumFixedCandidates == 4
Candidates == 1 .. (NumFixedCandidates + 2 * NumSubdirs)

\* the file systems start_bot is run against: no bot.exe anywhere, or bot.exe
\* at one of the candidate locations
ExeLayouts == {{}} \cup {{c} : c \in Candidates}

Free == <<"free", 0>>
ThreadLock(t) == <<"thread", t>>
TaskLockId(p) == <<"task", p>>

VARIABLES
    bot_process,    \* BotState.process: 0 (None) or the pid of the held Child
    bot_status,     \* BotState.status
    lock,           \* holder of AppState.bot (the Mutex)
    worker,         \* OS state of each worker process
    task,           \* position of the kill task stop_bot spawned for a pid
    pc,             \* position of each calling thread
    held,           \* the Child a quitting thread took out of the slot
    result,         \* what the last command that returned gave its caller
    launched,       \* number of processes spawned so far (next pid - 1)
    debug_build,    \* cfg!(debug_assertions)
    app_exited,     \* app.exit(0) has been called
    startedSinceStop, \* history: a start_bot succeeded and no stop_bot or quit ran since
    lastPoll        \* history: the labels returned by the latest get_bot_status
                    \* calls (at most the last two) between which nothing but
                    \* lock acquisitions happened

vars == <<bot_process, bot_status, lock, worker, task, pc, held, result,
          launched, debug_build, app_exited, startedSinceStop, lastPoll>>

\* ------------------------------------------------------- the history store
\* data/mythic_runs.db as get_last_sync_time, get_sync_history and
\* add_sync_history see it.  A table is [exists, cols, rows]; a row is a
\* function from the table's column names to values; NULL is Null in an
\* integer column and NullText in a text column.
MaxRows == 2

Null == -1
NullText == "<null>"

VARIABLES
    db_file,          \* data/mythic_runs.db exists
    sync_history,     \* the table sync_history
    sync_history_old, \* the table sync_history_old
    mpc,              \* position of the get_last_sync_time call in flight
    hret,             \* what the last command on the history store returned
    hist,             \* history: <<id, timestamp>> of the rows on disk at start-up
    migrated,         \* history: 0, 1 once a get_last_sync_time call has migrated
                      \* the table and returned Ok, 2 once a later call returned Ok
    lastAppend        \* history: <<entry, id>> of the add_sync_history that
                      \* succeeded in the previous step, else <<>>

histVars == <<db_file, sync_history, sync_history_old, mpc, hret, hist,
              migrated, lastAppend>>

\* --------------------------------------------------------- the log files
\* logs/current.log (the marker), the log file the worker writes and the
\* logs directory, as get_logs sees them.  A file is a sequence of lines; a
\* line is [json, len, wide]: the value its text parses to (or Junk), its
\* length in bytes with its newline, and whether its text is made of
\* two-byte characters.
MaxLines == 3

VARIABLES
    marker,           \* logs/current.log: "absent", "unreadable" or "named"
    log_file,         \* the file the marker names, the worker's log: [exists, lines]
    logs_dir,         \* logs/: "absent", "empty" (no other daebot-*.log), "older"
    lret              \* what the last get_logs returned

logVars == <<marker, log_file, logs_dir, lret>>

\* ------------------------------------------------- the search for bot.exe
\* the file system and environment one production-mode start_bot runs
\* against, and what that start_bot returned
VARIABLES
    exe_fs,           \* [exists, resource_dir_ok, current_exe_ok, read_dir_ok, order]
    exe_ret           \* [why, exe, checked] of the last start_bot, why "" for Ok

exeVars == <<exe_fs, exe_ret>>

allVars == <<vars, histVars, logVars, exeVars>>

\* start_bot's search: the error ("" for none), the candidate picked (0 for
\* none) and checked_paths
ExeRet(why, exe, checked) == [why |-> why, exe |-> exe, checked |-> checked]

\* the other specifications run start_bot against ExeLayouts instead
ExeIdle ==
    /\ exe_fs = [exists |-> {}, resource_dir_ok |-> TRUE, current_exe_ok |-> TRUE,
                 read_dir_ok |-> TRUE, order |-> [i \in 1 .. NumSubdirs |-> i]]
    /\ exe_ret = ExeRet("none", 0, <<>>)

NoFile == [exists |-> FALSE, lines |-> <<>>]

\* what get_logs returns: Ok(val) or Err(why); path: the branch that made it
LogRet(why, val, limit, path) ==
    [ok |-> (why = ""), why |-> why, val |-> val, limit |-> limit, path |-> path]

\* the other specifications leave the log files alone
LogIdle ==
    /\ marker = "absent"
    /\ log_file = NoFile
    /\ logs_dir = "absent"
    /\ lret = LogRet("", <<>>, Null, "none")

\* ------------------------------------------------------------ the registry
\* run(), .manage(AppState { bot: Mutex::new(BotState { process: None, status: "stopped" }) })
Init ==
    /\ bot_process = 0
    /\ bot_status = "stopped"
    /\ lock = Free
    /\ worker = [p \in Procs |-> "unspawned"]
    /\ task = [p \in Procs |-> "none"]
    /\ \E auto_start_bot \in BOOLEAN :
         pc = [t \in AllThreads |->
                 IF t = AutoThread /\ ~auto_start_bot THEN "finished" ELSE "idle"]
    /\ held = [t \in AllThreads |-> 0]
    /\ result = "none"
    /\ launched = 0
    /\ debug_build \in BOOLEAN
    /\ app_exited = FALSE
    /\ startedSinceStop = FALSE
    /\ lastPoll = <<>>

\* ------------------------------------------------------- pure parts of the code
\* Child::try_wait: Ok(Some(status)) when the process has terminated, Ok(None)
\* while it runs; Err only for a process that is already gone.
try_wait(w, err) ==
    IF w = "alive" THEN "OkNone"
    ELSE IF err THEN "Err" ELSE "OkSome"

\* production-mode search of start_bot: the first existing candidate, 0 if none
ResolveBotExe(exists) ==
    IF exists \cap Candidates = {} THEN 0
    ELSE CHOOSE c \in exists \cap Candidates :
            \A d \in exists \cap Candidates : c <= d

\* start_bot without its bot.process.is_some() test
StartBotBody_NoCheck(process, status, debug, exists, spawn_ok, newpid) ==
    IF ~debug /\ ResolveBotExe(exists) = 0
    THEN [process |-> process, status |-> status,
          ret |-> "bot.exe not found", spawned |-> FALSE]
    ELSE IF ~spawn_ok
    THEN [process |-> process, status |-> status,
          ret |-> "Failed to start bot", spawned |-> FALSE]
    ELSE [process |-> newpid, status |-> "running",
          ret |-> "Bot started successfully", spawned |-> TRUE]

\* start_bot after the lock is taken: the new registry, the value returned and
\* whether a process was spawned (as pid newpid)
StartBotBody(process, status, debug, exists, spawn_ok, newpid) ==
    IF process # 0
    THEN [process |-> process, status |-> status,
          ret |-> "Bot is already running", spawned |-> FALSE]
    ELSE IF ~debug /\ ResolveBotExe(exists) = 0
    THEN [process |-> process, status |-> status,
          ret |-> "bot.exe not found", spawned |-> FALSE]
    ELSE IF ~spawn_ok
    THEN [process |-> process, status |-> status,
          ret |-> "Failed to start bot", spawned |-> FALSE]
    ELSE [process |-> newpid, status |-> "running",
          ret |-> "Bot started successfully", spawned |-> TRUE]

\* stop_bot reading the handle with as_ref() instead of take(): the slot
\* keeps the handle the kill task is given
StopBotTake_KeepsHandle(process, status) ==
    IF process # 0
    THEN [process |-> process, status |-> "stopping", taken |-> process,
          ret |-> "Bot is stopping"]
    ELSE [process |-> process, status |-> status, taken |-> 0,
          ret |-> "Bot is not running"]

\* stop_bot writing the label before it tests the slot
StopBotTake_AlwaysStopping(process, status) ==
    IF process # 0
    THEN [process |-> 0, status |-> "stopping", taken |-> process,
          ret |-> "Bot is stopping"]
    ELSE [process |-> process, status |-> "stopping", taken |-> 0,
          ret |-> "Bot is not running"]

\* the critical section of stop_bot and what it returns
StopBotTake(process, status) ==
    IF process # 0
    THEN [process |-> 0, status |-> "stopping", taken |-> process,
          ret |-> "Bot is stopping"]
    ELSE [process |-> process, status |-> status, taken |-> 0,
          ret |-> "Bot is not running"]

\* get_bot_status without the else branch that resets the label
GetBotStatusBody_KeepLabel(process, status, w, err) ==
    IF process # 0
    THEN CASE try_wait(w, err) = "OkSome" ->
                [process |-> 0, status |-> "stopped", ret |-> "stopped"]
           [] try_wait(w, err) = "OkNone" ->
                [process |-> process, status |-> "running", ret |-> "running"]
           [] try_wait(w, err) = "Err" ->
                [process |-> 0, status |-> "stopped", ret |-> "stopped"]
    ELSE [process |-> 0, status |-> status, ret |-> status]

\* get_bot_status clearing the slot in the Ok(None) arm as well
GetBotStatusBody_DropAlive(process, status, w, err) ==
    IF process # 0
    THEN CASE try_wait(w, err) = "OkSome" ->
                [process |-> 0, status |-> "stopped", ret |-> "stopped"]
           [] try_wait(w, err) = "OkNone" ->
                [process |-> 0, status |-> "running", ret |-> "running"]
           [] try_wait(w, err) = "Err" ->
                [process |-> 0, status |-> "stopped", ret |-> "stopped"]
    ELSE [process |-> 0, status |-> "stopped", ret |-> "stopped"]

\* get_bot_status after the lock is taken
GetBotStatusBody(process, status, w, err) ==
    IF process # 0
    THEN CASE try_wait(w, err) = "OkSome" ->
                [process |-> 0, status |-> "stopped", ret |-> "stopped"]
           [] try_wait(w, err) = "OkNone" ->
                [process |-> process, status |-> "running", ret |-> "running"]
           [] try_wait(w, err) = "Err" ->
                [process |-> 0, status |-> "stopped", ret |-> "stopped"]
    ELSE [process |-> 0, status |-> "stopped", ret |-> "stopped"]

\* the label a quit path stores once its kill has returned: quit_app writes
\* "stopped", the tray handler writes nothing
QuitStatus(kind, status) ==
    IF kind = "quit_app" THEN "stopped" ELSE status

\* outcome of a kill (taskkill /F /T /PID, or Child::kill): the process is
\* terminated, or the attempt fails and the process is as it was
KillOutcomes(w) ==
    IF w = "alive" THEN {"killed", "alive"} ELSE {w}

\* ------------------------------------------------------------------ actions
\* a worker terminates on its own
WorkerExit(p) ==
    /\ worker[p] = "alive"
    /\ worker' = [worker EXCEPT ![p] = "exited"]
    /\ lastPoll' = <<>>
    /\ UNCHANGED <<bot_process, bot_status, lock, task, pc, held, result,
                   launched, debug_build, app_exited, startedSinceStop>>
    /\ UNCHANGED <<histVars, logVars, exeVars>>

\* state.bot.lock().unwrap() at the head of a command
Acquire(t, next) ==
    /\ ~app_exited
    /\ pc[t] = "idle"
    /\ lock = Free
    /\ lock' = ThreadLock(t)
    /\ pc' = [pc EXCEPT ![t] = next]
    /\ UNCHANGED <<bot_process, bot_status, worker, task, held, result,
                   launched, debug_build, app_exited, startedSinceStop, lastPoll>>
    /\ UNCHANGED <<histVars, logVars, exeVars>>

StartBotLock(t) ==
    /\ bot_process # 0 \/ launched < MaxProcs
    /\ Acquire(t, "start")

StartBot(t) ==
    /\ pc[t] = "start"
    /\ \E exists \in ExeLayouts, spawn_ok \in BOOLEAN :
         LET r == StartBotBody(bot_process, bot_status, debug_build, exists,
                               spawn_ok, launched + 1)
         IN /\ bot_process' = r.process
            /\ bot_status' = r.status
            /\ result' = r.ret
            /\ launched' = IF r.spawned THEN launched + 1 ELSE launched
            /\ worker' = IF r.spawned
                         THEN [worker EXCEPT ![launched + 1] = "alive"]
                         ELSE worker
            /\ startedSinceStop' = (startedSinceStop \/ r.spawned)
    /\ lock' = Free
    /\ pc' = [pc EXCEPT ![t] = IF t = AutoThread THEN "finished" ELSE "idle"]
    /\ lastPoll' = <<>>
    /\ UNCHANGED <<task, held, debug_build, app_exited>>
    /\ UNCHANGED <<histVars, logVars, exeVars>>

StopBotLock(t) ==
    /\ t \in Threads
    /\ Acquire(t, "stop")

\* the critical section, the spawn of the kill task and the return
StopBot(t) ==
    /\ pc[t] = "stop"
    /\ LET r == StopBotTake(bot_process, bot_status)
       IN /\ bot_process' = r.process
          /\ bot_status' = r.status
          /\ result' = r.ret
          /\ task' = IF r.taken # 0 THEN [task EXCEPT ![r.taken] = "kill"] ELSE task
    /\ lock' = Free
    /\ pc' = [pc EXCEPT ![t] = "idle"]
    /\ startedSinceStop' = FALSE
    /\ lastPoll' = <<>>
    /\ UNCHANGED <<worker, held, launched, debug_build, app_exited>>
    /\ UNCHANGED <<histVars, logVars, exeVars>>

\* the kill attempt of the background task returns
TaskKill(p) ==
    /\ ~app_exited
    /\ task[p] = "kill"
    /\ \E w \in KillOutcomes(worker[p]) : worker' = [worker EXCEPT ![p] = w]
    /\ task' = [task EXCEPT ![p] = "killed"]
    /\ lastPoll' = <<>>
    /\ UNCHANGED <<bot_process, bot_status, lock, pc, held, result,
                   launched, debug_build, app_exited, startedSinceStop>>
    /\ UNCHANGED <<histVars, logVars, exeVars>>

\* state.bot.lock().unwrap() in the background task
TaskLock(p) ==
    /\ ~app_exited
    /\ task[p] = "killed"
    /\ lock = Free
    /\ lock' = TaskLockId(p)
    /\ task' = [task EXCEPT ![p] = "locked"]
    /\ UNCHANGED <<bot_process, bot_status, worker, pc, held, result,
                   launched, debug_build, app_exited, startedSinceStop, lastPoll>>
    /\ UNCHANGED <<histVars, logVars, exeVars>>

\* bot.status = "stopped" and the end of the task
TaskSetStopped(p) ==
    /\ task[p] = "locked"
    /\ bot_status' = "stopped"
    /\ lock' = Free
    /\ task' = [task EXCEPT ![p] = "done"]
    /\ lastPoll' = <<>>
    /\ UNCHANGED <<bot_process, worker, pc, held, result,
                   launched, debug_build, app_exited, startedSinceStop>>
    /\ UNCHANGED <<histVars, logVars, exeVars>>

GetBotStatusLock(t) ==
    /\ t \in Threads
    /\ Acquire(t, "status")

GetBotStatus(t) ==
    /\ pc[t] = "status"
    /\ \E err \in BOOLEAN :
         LET r == GetBotStatusBody(bot_process, bot_status,
                     IF bot_process # 0 THEN worker[bot_process] ELSE "unspawned",
                     err)
         IN /\ bot_process' = r.process
            /\ bot_status' = r.status
            /\ result' = r.ret
            /\ lastPoll' = IF lastPoll = <<>> THEN <<r.ret>> ELSE <<lastPoll[Len(lastPoll)], r.ret>>
    /\ lock' = Free
    /\ pc' = [pc EXCEPT ![t] = "idle"]
    /\ UNCHANGED <<worker, task, held, launched, debug_build, app_exited,
                   startedSinceStop>>
    /\ UNCHANGED <<histVars, logVars, exeVars>>

\* quit_app (kind "quit_app") and the tray menu's "quit" (kind "tray_quit")
QuitLock(t, kind) ==
    /\ t \in Threads
    /\ Acquire(t, kind)

\* bot.process.take(): with a handle the thread goes on to kill it, still
\* holding the lock; without one it releases the lock and exits the app
QuitTake(t, kind) ==
    /\ pc[t] = kind
    /\ kind \in {"quit_app", "tray_quit"}
    /\ IF bot_process # 0
       THEN /\ held' = [held EXCEPT ![t] = bot_process]
            /\ bot_process' = 0
            /\ pc' = [pc EXCEPT ![t] = kind \o "_kill"]
            /\ UNCHANGED <<lock, app_exited>>
       ELSE /\ lock' = Free
            /\ app_exited' = TRUE
            /\ pc' = [pc EXCEPT ![t] = "exited"]
            /\ UNCHANGED <<held, bot_process>>
    /\ startedSinceStop' = FALSE
    /\ lastPoll' = <<>>
    /\ UNCHANGED <<bot_status, worker, task, result, launched, debug_build>>
    /\ UNCHANGED <<histVars, logVars, exeVars>>

\* the kill returns; the label is written (quit_app only), the lock is
\* released and app.exit(0) is called
QuitKill(t, kind) ==
    /\ pc[t] = kind \o "_kill"
    /\ kind \in {"quit_app", "tray_quit"}
    /\ \E w \in KillOutcomes(worker[held[t]]) :
         worker' = [worker EXCEPT ![held[t]] = w]
    /\ bot_status' = QuitStatus(kind, bot_status)
    /\ held' = [held EXCEPT ![t] = 0]
    /\ lock' = Free
    /\ app_exited' = TRUE
    /\ pc' = [pc EXCEPT ![t] = "exited"]
    /\ lastPoll' = <<>>
    /\ UNCHANGED <<bot_process, task, result, launched, debug_build,
                   startedSinceStop>>
    /\ UNCHANGED <<histVars, logVars, exeVars>>

Next ==
    \/ \E p \in Procs : WorkerExit(p)
    \/ \E t \in AllThreads : StartBotLock(t)
    \/ \E t \in AllThreads : StartBot(t)
    \/ \E t \in Threads : StopBotLock(t)
    \/ \E t \in Threads : StopBot(t)
    \/ \E p \in Procs : TaskKill(p)
    \/ \E p \in Procs : TaskLock(p)
    \/ \E p \in Procs : TaskSetStopped(p)
    \/ \E t \in Threads : GetBotStatusLock(t)
    \/ \E t \in Threads : GetBotStatus(t)
    \/ \E t \in Threads, kind \in {"quit_app", "tray_quit"} : QuitLock(t, kind)
    \/ \E t \in Threads, kind \in {"quit_app", "tray_quit"} : QuitTake(t, kind)
    \/ \E t \in Threads, kind \in {"quit_app", "tray_quit"} : QuitKill(t, kind)

\* ============================================================ history store
\* column sets: the canonical schema of CREATE TABLE sync_history, the old
\* schema the copy statement of the migration reads (duration, error, no
\* sync_type), and the schema that only lacks sync_type and duration_ms, which
\* the migration completes with ALTER TABLE alone
CanonicalCols ==
    {"id", "timestamp", "sync_type", "runs_added", "characters_processed",
     "duration_ms", "success", "error_message"}
OldCols ==
    {"id", "timestamp", "success", "runs_added", "characters_processed",
     "duration", "error"}
MidCols ==
    {"id", "timestamp", "success", "runs_added", "characters_processed",
     "error_message"}

\* the canonical columns a table may lack (id and timestamp are in every layout)
OptionalCanonicalCols == CanonicalCols \ {"id", "timestamp"}

\* the layouts a sync_history table on disk is drawn from: canonical, old,
\* ALTER-only, and the canonical layout less one column
Layouts ==
    {CanonicalCols, OldCols, MidCols}
        \cup {CanonicalCols \ {c} : c \in OptionalCanonicalCols}

TextCols == {"sync_type", "error", "error_message"}

AbsentTable == [exists |-> FALSE, cols |-> {}, rows |-> {}]

\* rows a table of a layout holds at start-up, by <<timestamp, success,
\* runs_added>>; runs_added is NULL only where the layout allows it (old)
RowSamples == {<<1, 1, Null>>, <<2, 0, 3>>}

SampleValue(cols, c, id, smp) ==
    CASE c = "id" -> id
      [] c = "timestamp" -> smp[1]
      [] c = "success" -> smp[2]
      [] c = "runs_added" ->
            IF smp[3] = Null /\ "sync_type" \in cols THEN 0 ELSE smp[3]
      [] c = "characters_processed" -> IF "sync_type" \in cols THEN 0 ELSE Null
      [] c = "sync_type" -> "auto"
      [] c \in {"duration", "duration_ms"} -> IF smp[2] = 1 THEN 7 ELSE Null
      [] OTHER -> IF smp[2] = 1 THEN NullText ELSE "boom"

SampleRow(cols, id, smp) == [c \in cols |-> SampleValue(cols, c, id, smp)]

SampleTable(cols, smps) ==
    [exists |-> TRUE, cols |-> cols,
     rows |-> {SampleRow(cols, i, smps[i]) : i \in 1 .. Len(smps)}]

SampleSeqs == UNION {[1 .. n -> RowSamples] : n \in 0 .. MaxRows}

\* ------------------------------------------------------------ SQL statements
\* every statement returns [ok, why, t (sync_history), o (sync_history_old)];
\* a failed statement changes nothing and says why.  fail: the statement is
\* refused for a reason outside the schema (database locked by the worker,
\* disk full).
SqlResult(why, t, o) == [ok |-> (why = ""), why |-> why, t |-> t, o |-> o]

\* CREATE TABLE IF NOT EXISTS sync_history (canonical columns)
CreateIfNotExists(t, o, fail) ==
    IF fail THEN SqlResult("refused", t, o)
    ELSE IF t.exists THEN SqlResult("", t, o)
    ELSE SqlResult("", [exists |-> TRUE, cols |-> CanonicalCols, rows |-> {}], o)

\* ALTER TABLE sync_history ADD COLUMN c ... DEFAULT d
AlterAddColumn(t, o, c, d, fail) ==
    IF fail THEN SqlResult("refused", t, o)
    ELSE IF ~t.exists THEN SqlResult("no such table", t, o)
    ELSE IF c \in t.cols THEN SqlResult("duplicate column", t, o)
    ELSE SqlResult("",
            [exists |-> TRUE, cols |-> t.cols \cup {c},
             rows |-> {[k \in t.cols \cup {c} |-> IF k = c THEN d ELSE r[k]] :
                          r \in t.rows}],
            o)

\* ALTER TABLE sync_history RENAME TO sync_history_old
RenameAside(t, o, fail) ==
    IF fail THEN SqlResult("refused", t, o)
    ELSE IF ~t.exists THEN SqlResult("no such table", t, o)
    ELSE IF o.exists THEN SqlResult("table exists", t, o)
    ELSE SqlResult("", AbsentTable, t)

\* CREATE TABLE sync_history (canonical columns)
CreateCanonical(t, o, fail) ==
    IF fail THEN SqlResult("refused", t, o)
    ELSE IF t.exists THEN SqlResult("table exists", t, o)
    ELSE SqlResult("", [exists |-> TRUE, cols |-> CanonicalCols, rows |-> {}], o)

\* the columns the copy statement selects from sync_history_old
CopySourceCols ==
    {"id", "timestamp", "success", "runs_added", "characters_processed",
     "duration", "error"}

COALESCE(v, d) == IF v = Null THEN d ELSE v

\* the row INSERT INTO sync_history (...) SELECT ... FROM sync_history_old
\* makes of an old row; sync_type is not listed and takes its default
CopiedRow(r) ==
    [c \in CanonicalCols |->
        CASE c = "id" -> r["id"]
          [] c = "timestamp" -> r["timestamp"]
          [] c = "success" -> r["success"]
          [] c = "runs_added" -> COALESCE(r["runs_added"], 0)
          [] c = "characters_processed" -> COALESCE(r["characters_processed"], 0)
          [] c = "duration_ms" -> r["duration"]
          [] c = "error_message" -> r["error"]
          [] OTHER -> "auto"]

Ids(rows) == {r["id"] : r \in rows}

\* a copy that leaves out the old rows whose runs_added is NULL
CopyRows_SkipsNull(t, o, fail) ==
    IF fail \/ ~t.exists \/ ~o.exists THEN SqlResult("refused", t, o)
    ELSE SqlResult("",
            [t EXCEPT !.rows =
                t.rows \cup {[c \in t.cols |-> CopiedRow(r)[c]] :
                               r \in {q \in o.rows : q["runs_added"] # Null}}],
            o)

\* the copy: one statement, all rows or none
CopyRows(t, o, fail) ==
    IF fail THEN SqlResult("refused", t, o)
    ELSE IF ~t.exists \/ ~o.exists THEN SqlResult("no such table", t, o)
    ELSE IF ~(CanonicalCols \subseteq t.cols) \/ ~(CopySourceCols \subseteq o.cols)
    THEN SqlResult("no such column", t, o)
    ELSE IF \/ Ids(t.rows) \cap Ids(o.rows) # {}
            \/ \E r \in o.rows : r["timestamp"] = Null \/ r["success"] = Null
    THEN SqlResult("constraint", t, o)
    ELSE SqlResult("",
            [t EXCEPT !.rows =
                t.rows \cup {[c \in t.cols |-> CopiedRow(r)[c]] : r \in o.rows}],
            o)

\* DROP TABLE sync_history_old
DropOld(t, o, fail) ==
    IF fail THEN SqlResult("refused", t, o)
    ELSE IF ~o.exists THEN SqlResult("no such table", t, o)
    ELSE SqlResult("", t, AbsentTable)

\* ---------------------------------------------------------------- timestamps
\* An RFC 3339 string is [valid, wall, off]: the wall-clock time and the UTC
\* offset it prints, both in units of 1/UnitsPerMs millisecond; the instant
\* it denotes is wall - off.
UnitsPerMs == 2

TimeString(wall, off) == [valid |-> TRUE, wall |-> wall, off |-> off]
InvalidTimeString == [valid |-> FALSE, wall |-> 0, off |-> 0]

\* a parse that drops the UTC offset of the string
ParseTimestampMs_IgnoresOffset(s, now) ==
    IF s.valid THEN s.wall \div UnitsPerMs ELSE now

\* DateTime::parse_from_rfc3339(s).map(timestamp_millis), or the clock
ParseTimestampMs(s, now) ==
    IF s.valid THEN (s.wall - s.off) \div UnitsPerMs ELSE now

\* DateTime::from_timestamp_millis(ms).to_rfc3339(): UTC, whole milliseconds
ToRfc3339(ms) == TimeString(ms * UnitsPerMs, 0)

\* the instant of a valid string, in milliseconds, fraction dropped
InstantMs(s) == (s.wall - s.off) \div UnitsPerMs

\* inputs: the timestamp strings, the clock readings and the entries handed
\* to add_sync_history
TimeStrings ==
    {TimeString(7, 0), TimeString(6, 2), InvalidTimeString}
Clock == {4}

\* a successful entry carries no optional field, a failed one a count and
\* an error text
Entry(ts, ok) ==
    [timestamp |-> ts, success |-> ok, sync_type |-> "manual",
     runs_added |-> IF ok THEN Null ELSE 5, characters_processed |-> Null,
     duration |-> Null, error |-> IF ok THEN NullText ELSE "boom"]
Entries ==
    {Entry(ts, TRUE) : ts \in TimeStrings} \cup {Entry(TimeString(6, 0), FALSE)}

\* limit: Option<usize>, Null for None
DefaultLimit == 4
Limits == {Null, 1}

\* -------------------------------------------------------- insert and query
\* the columns the INSERT of add_sync_history names
InsertCols == CanonicalCols \ {"id"}

MaxId(rows) == IF rows = {} THEN 0 ELSE CHOOSE m \in Ids(rows) : \A i \in Ids(rows) : i <= m

\* the row add_sync_history inserts for an entry
InsertedRow(cols, id, e, now) ==
    [c \in cols |->
        CASE c = "id" -> id
          [] c = "timestamp" -> ParseTimestampMs(e.timestamp, now)
          [] c = "sync_type" -> e.sync_type
          [] c = "runs_added" -> COALESCE(e.runs_added, 0)
          [] c = "characters_processed" -> COALESCE(e.characters_processed, 0)
          [] c = "duration_ms" -> e.duration
          [] c = "success" -> IF e.success THEN 1 ELSE 0
          [] c = "error_message" -> e.error
          [] OTHER -> IF c \in TextCols THEN NullText ELSE Null]

\* an INSERT OR REPLACE that reuses the greatest id
InsertEntry_Replace(t, o, e, now, fail) ==
    IF fail \/ ~t.exists \/ ~(InsertCols \subseteq t.cols)
    THEN SqlResult("refused", t, o)
    ELSE SqlResult("",
            [t EXCEPT !.rows = {r \in t.rows : r["id"] # MaxId(t.rows)} \cup
                {InsertedRow(t.cols, MaxId(t.rows), e, now)}],
            o)

\* INSERT INTO sync_history (...) VALUES (...): one statement
InsertEntry(t, o, e, now, fail) ==
    IF fail THEN SqlResult("refused", t, o)
    ELSE IF ~t.exists THEN SqlResult("no such table", t, o)
    ELSE IF ~(InsertCols \subseteq t.cols) THEN SqlResult("no such column", t, o)
    ELSE SqlResult("",
            [t EXCEPT !.rows = t.rows \cup
                {InsertedRow(t.cols, MaxId(t.rows) + 1, e, now)}],
            o)

\* the columns the SELECT of get_sync_history names
SelectCols == CanonicalCols \ {"id"}

\* the SyncHistoryEntry get_sync_history builds from a row
EntryOfRow(r) ==
    [timestamp |-> ToRfc3339(r["timestamp"]),
     success |-> (r["success"] # 0),
     sync_type |-> r["sync_type"],
     runs_added |-> r["runs_added"],
     characters_processed |-> r["characters_processed"],
     duration |-> r["duration_ms"],
     error |-> r["error_message"]]

Min(a, b) == IF a < b THEN a ELSE b

\* ORDER BY timestamp ASC LIMIT n
OrderedRows_Ascending(rows, n) ==
    LET k == IF n < Cardinality(rows) THEN n ELSE Cardinality(rows)
    IN {s \in [1 .. k -> rows] :
          /\ \A i, j \in 1 .. k : i < j =>
                (s[i] # s[j] /\ s[i]["timestamp"] <= s[j]["timestamp"])
          /\ \A r \in rows : (\A i \in 1 .. k : s[i] # r) =>
                \A i \in 1 .. k : s[i]["timestamp"] <= r["timestamp"]}

\* ORDER BY timestamp DESC LIMIT n: every order of the rows that is
\* descending in timestamp (rows with equal timestamps in any order), cut at n
OrderedRows(rows, n) ==
    LET k == Min(n, Cardinality(rows))
    IN {s \in [1 .. k -> rows] :
          /\ \A i, j \in 1 .. k : i < j =>
                (s[i] # s[j] /\ s[i]["timestamp"] >= s[j]["timestamp"])
          /\ \A r \in rows : (\A i \in 1 .. k : s[i] # r) =>
                \A i \in 1 .. k : s[i]["timestamp"] >= r["timestamp"]}

\* get_sync_history once the table is there: the possible results
QueryHistory(t, limit) ==
    IF ~t.exists THEN {[why |-> "no such table", val |-> <<>>]}
    ELSE IF ~(SelectCols \subseteq t.cols)
    THEN {[why |-> "no such column", val |-> <<>>]}
    ELSE {[why |-> "", val |-> [i \in 1 .. Len(s) |-> EntryOfRow(s[i])]] :
            s \in OrderedRows(t.rows, IF limit = Null THEN DefaultLimit ELSE limit)}

\* the columns the SELECTs of get_last_sync_time name
LastSyncCols == {"id", "timestamp", "sync_type", "success"}

\* SELECT timestamp FROM sync_history WHERE success = 1 ORDER BY timestamp
\* DESC LIMIT 1, converted: <<string>> or <<>> for None
LastSyncTime(rows) ==
    LET good == {r \in rows : r["success"] = 1}
    IN IF good = {} THEN <<>>
       ELSE <<ToRfc3339(CHOOSE m \in {r["timestamp"] : r \in good} :
                           \A r \in good : r["timestamp"] <= m)>>

\* ------------------------------------------------------- the migration block
\* a migration that drops the old table before it copies
NextMigrationStep_DropBeforeCopy(step) ==
    CASE step = "rename" -> "create"
      [] step = "create" -> "drop"
      [] step = "drop" -> "copy"
      [] step = "copy" -> "query_m"

\* the statement that follows a migration statement that succeeded
NextMigrationStep(step) ==
    CASE step = "rename" -> "create"
      [] step = "create" -> "copy"
      [] step = "copy" -> "drop"
      [] step = "drop" -> "query_m"

MigrationSteps == {"rename", "create", "copy", "drop"}

\* the statement of a migration step
MigrationStatement(step, t, o, fail) ==
    CASE step = "rename" -> RenameAside(t, o, fail)
      [] step = "create" -> CreateCanonical(t, o, fail)
      [] step = "copy" -> CopyRows(t, o, fail)
      [] step = "drop" -> DropOld(t, o, fail)

\* schema checks that send every existing table to the ALTERs
DetectSchema_AlwaysAlter(t) ==
    IF t.exists THEN "alter" ELSE "query"

\* where get_last_sync_time goes after its schema checks: the table exists
\* and has no sync_type column -> the ALTERs, else the queries
DetectSchema(t) ==
    IF t.exists /\ "sync_type" \notin t.cols THEN "alter" ELSE "query"

\* what get_last_sync_time returns: Ok(Some(string)), Ok(None) or Err
Ret(op, why, val, limit) ==
    [op |-> op, ok |-> (why = ""), why |-> why, val |-> val, limit |-> limit]
LastRet(why, val) == Ret("last", why, val, Null)

\* ------------------------------------------------------------ initial states
\* the supervisor specification leaves the history store alone
HistIdle ==
    /\ db_file = FALSE
    /\ sync_history = AbsentTable
    /\ sync_history_old = AbsentTable
    /\ mpc = "idle"
    /\ hret = Ret("none", "", <<>>, Null)
    /\ hist = {}
    /\ migrated = 0
    /\ lastAppend = <<>>

\* the database as an earlier run of the application or of the worker left
\* it: no file, a file without the table, or a table of one of the layouts
\* holding up to MaxRows rows
HistInit ==
    /\ Init
    /\ LogIdle
    /\ ExeIdle
    /\ debug_build = FALSE
    /\ pc[AutoThread] = "finished"
    /\ \/ db_file = FALSE /\ sync_history = AbsentTable
       \/ db_file = TRUE /\ sync_history = AbsentTable
       \/ /\ db_file = TRUE
          /\ \E cols \in Layouts, smps \in SampleSeqs :
                sync_history = SampleTable(cols, smps)
    /\ sync_history_old = AbsentTable
    /\ mpc = "idle"
    /\ hret = Ret("none", "", <<>>, Null)
    /\ hist = {<<r["id"], r["timestamp"]>> : r \in sync_history.rows}
    /\ migrated = 0
    /\ lastAppend = <<>>

\* ------------------------------------------------------------------ actions
\* get_sync_history(limit)
GetSyncHistory(limit) ==
    /\ IF ~db_file
       THEN /\ hret' = Ret("get", "", <<>>, limit)
            /\ UNCHANGED <<sync_history, sync_history_old>>
       ELSE \E fail \in BOOLEAN :
              LET c == CreateIfNotExists(sync_history, sync_history_old, fail)
              IN /\ sync_history' = c.t
                 /\ sync_history_old' = c.o
                 /\ IF ~c.ok
                    THEN hret' = Ret("get", c.why, <<>>, limit)
                    ELSE \E q \in QueryHistory(c.t, limit) :
                           hret' = Ret("get", q.why, q.val, limit)
    /\ lastAppend' = IF hret'.ok /\ sync_history' = sync_history
                     THEN lastAppend ELSE <<>>
    /\ UNCHANGED <<db_file, mpc, hist, migrated>>
    /\ UNCHANGED <<vars, logVars, exeVars>>

\* add_sync_history(entry)
AddSyncHistory(e) ==
    /\ Cardinality(sync_history.rows) < MaxRows
    /\ db_file' = TRUE
    /\ \E fail_create \in BOOLEAN, fail_insert \in BOOLEAN, now \in Clock :
         LET c == CreateIfNotExists(sync_history, sync_history_old, fail_create)
             i == InsertEntry(c.t, c.o, e, now, fail_insert)
         IN IF ~c.ok
            THEN /\ UNCHANGED <<sync_history, sync_history_old>>
                 /\ hret' = Ret("add", c.why, <<>>, Null)
                 /\ lastAppend' = <<>>
            ELSE /\ sync_history' = i.t
                 /\ sync_history_old' = i.o
                 /\ hret' = Ret("add", i.why, <<>>, Null)
                 /\ lastAppend' = IF i.ok THEN <<e, MaxId(c.t.rows) + 1, now>>
                                  ELSE <<>>
    /\ UNCHANGED <<mpc, hist, migrated>>
    /\ UNCHANGED <<vars, logVars, exeVars>>

\* get_last_sync_time up to its schema checks
LstBegin ==
    /\ mpc = "idle"
    /\ IF ~db_file
       THEN /\ hret' = LastRet("", <<>>)
            /\ mpc' = "idle"
       ELSE /\ mpc' = DetectSchema(sync_history)
            /\ UNCHANGED hret
    /\ lastAppend' = <<>>
    /\ UNCHANGED <<db_file, sync_history, sync_history_old, hist, migrated>>
    /\ UNCHANGED <<vars, logVars, exeVars>>

\* the two ALTER TABLE ... ADD COLUMN, their results ignored, and the check
\* for error_message
LstAlter ==
    /\ mpc = "alter"
    /\ \E f1 \in BOOLEAN, f2 \in BOOLEAN :
         LET a1 == AlterAddColumn(sync_history, sync_history_old,
                                  "sync_type", "auto", f1)
             a2 == AlterAddColumn(a1.t, a1.o, "duration_ms", Null, f2)
         IN /\ sync_history' = a2.t
            /\ sync_history_old' = a2.o
            /\ mpc' = IF "error_message" \notin a2.t.cols
                      THEN "rename" ELSE "query_m"
    /\ lastAppend' = <<>>
    /\ UNCHANGED <<db_file, hret, hist, migrated>>
    /\ UNCHANGED <<vars, logVars, exeVars>>

\* one statement of rename / create / copy / drop; a failure ends the call
LstMigrate ==
    /\ mpc \in MigrationSteps
    /\ \E fail \in BOOLEAN :
         LET r == MigrationStatement(mpc, sync_history, sync_history_old, fail)
         IN /\ sync_history' = r.t
            /\ sync_history_old' = r.o
            /\ IF r.ok
               THEN /\ mpc' = NextMigrationStep(mpc)
                    /\ UNCHANGED hret
               ELSE /\ mpc' = "idle"
                    /\ hret' = LastRet(r.why, <<>>)
    /\ lastAppend' = <<>>
    /\ UNCHANGED <<db_file, hist, migrated>>
    /\ UNCHANGED <<vars, logVars, exeVars>>

\* the rest of get_last_sync_time: table check and queries
LstQuery ==
    /\ mpc \in {"query", "query_m"}
    /\ hret' =
         IF ~sync_history.exists THEN LastRet("", <<>>)
         ELSE IF ~(LastSyncCols \subseteq sync_history.cols)
         THEN LastRet("no such column", <<>>)
         ELSE LastRet("", LastSyncTime(sync_history.rows))
    /\ migrated' = IF ~hret'.ok THEN migrated
                   ELSE IF migrated = 0 /\ mpc = "query_m" THEN 1
                   ELSE IF migrated >= 1 THEN 2
                   ELSE migrated
    /\ mpc' = "idle"
    /\ lastAppend' = <<>>
    /\ UNCHANGED <<db_file, sync_history, sync_history_old, hist>>
    /\ UNCHANGED <<vars, logVars, exeVars>>

HistNext ==
    \/ \E limit \in Limits : GetSyncHistory(limit)
    \/ \E e \in Entries : AddSyncHistory(e)
    \/ LstBegin
    \/ LstAlter
    \/ LstMigrate
    \/ LstQuery

HistSpec == HistInit /\ [][HistNext]_allVars

\* ================================================================= get_logs
LargeFileThreshold == 1000000
ReadWindow == 500000
DefaultLogLimit == 100

\* ------------------------------------------------------------- JSON values
\* what serde_json::from_str makes of a line: an object with the string
\* fields it has (Absent for a missing one) and whether it has other keys, a
\* value that is not an object, or Junk when the text is not JSON
Absent == "<absent>"
JsonValue(type, ts, level, msg, other) ==
    [type |-> type, timestamp |-> ts, level |-> level, message |-> msg,
     other |-> other]
Junk == JsonValue("junk", Absent, Absent, Absent, FALSE)
JsonNumber == JsonValue("number", Absent, Absent, Absent, FALSE)
JsonObject(ts, level, msg, other) == JsonValue("object", ts, level, msg, other)

\* json[key].as_str().unwrap_or(default): indexing a value that is not an
\* object, or a missing key, gives null
StrField(json, key, default) ==
    IF json.type = "object" /\ json[key] # Absent THEN json[key] ELSE default

\* parse_log_entry(json)
parse_log_entry(json) ==
    [timestamp |-> StrField(json, "timestamp", ""),
     level |-> StrField(json, "level", "INFO"),
     message |-> StrField(json, "message", ""),
     metadata |-> IF json.type = "object" THEN json.other ELSE FALSE]

\* ------------------------------------------------------------------- lines
Line(json, len, wide) == [json |-> json, len |-> len, wide |-> wide]

\* the lines the worker and other writers put into a log file: records (one
\* complete, one without level and timestamp, one with large metadata),
\* text that is not JSON (short, exactly a window long, long with two-byte
\* characters) and a line holding a number
ShortLen == 101
Lines ==
    {Line(JsonObject("t1", "ERROR", "m1", FALSE), ShortLen, FALSE),
     Line(JsonObject(Absent, Absent, "m2", TRUE), ShortLen, FALSE),
     Line(JsonObject("t3", "WARN", "m3", TRUE), 600001, FALSE),
     Line(Junk, ShortLen, FALSE),
     Line(Junk, ReadWindow, FALSE),
     Line(Junk, 600001, TRUE),
     Line(JsonNumber, ShortLen, FALSE)}

\* byte k of a line is the second byte of a two-byte character
ContinuationByte(line, k) ==
    line.wide /\ k >= 2 /\ k < line.len - 2 /\ k % 2 = 0

\* serde_json::from_str of the text of a line from byte k on: a proper
\* suffix of an object or of text that is not JSON is not JSON, a suffix of
\* digits is a number, and what is left of the line at its newline is empty
FromStr(line, k) ==
    IF k = 0 THEN line.json
    ELSE IF line.json.type = "number" /\ k < line.len - 1 THEN JsonNumber
    ELSE Junk

RECURSIVE FileSize(_)
FileSize(lines) ==
    IF lines = <<>> THEN 0 ELSE Head(lines).len + FileSize(Tail(lines))

\* ----------------------------------------------------------------- parsing
\* the loop of the small path: each line that is JSON becomes an entry
RECURSIVE ParseLines(_)
ParseLines(lines) ==
    IF lines = <<>> THEN <<>>
    ELSE (IF FromStr(Head(lines), 0).type # "junk"
          THEN <<parse_log_entry(FromStr(Head(lines), 0))>> ELSE <<>>)
         \o ParseLines(Tail(lines))

\* a cut that keeps the first limit entries
LastEntries_FromFront(logs, limit) ==
    SubSeq(logs, 1, IF Len(logs) > limit THEN limit ELSE Len(logs))

\* logs[start..] with start = len - limit, or 0
LastEntries(logs, limit) ==
    LET start == IF Len(logs) > limit THEN Len(logs) - limit ELSE 0
    IN SubSeq(logs, start + 1, Len(logs))

\* file.seek(SeekFrom::Start(pos)): the lines from the one that holds byte
\* pos on, and the offset k of pos in the first of them
RECURSIVE SeekFrom(_, _)
SeekFrom(lines, pos) ==
    IF lines = <<>> THEN [k |-> 0, lines |-> <<>>]
    ELSE IF pos >= Head(lines).len THEN SeekFrom(Tail(lines), pos - Head(lines).len)
    ELSE [k |-> pos, lines |-> lines]

\* where the large path seeks to
SeekPos(file_size) ==
    LET read_size == IF ReadWindow < file_size THEN ReadWindow ELSE file_size
    IN file_size - read_size

\* read_to_string fails when what it reads is not UTF-8: the window starts
\* inside a character
ReadToStringFails(w) ==
    w.lines # <<>> /\ w.k > 0 /\ ContinuationByte(Head(w.lines), w.k)

\* the loop of the large path over buffer.lines(): the rest of the line the
\* seek fell into, then the whole lines after it
ParseWindow(w) ==
    IF w.lines = <<>> THEN <<>>
    ELSE (IF FromStr(Head(w.lines), w.k).type # "junk"
          THEN <<parse_log_entry(FromStr(Head(w.lines), w.k))>> ELSE <<>>)
         \o ParseLines(Tail(w.lines))

\* ------------------------------------------------------------ the log file
\* an older daebot-*.log in the logs directory
OlderLog ==
    [exists |-> TRUE,
     lines |-> <<Line(JsonObject("t0", "INFO", "m0", FALSE), ShortLen, FALSE)>>]

\* get_most_recent_log_file(logs_dir): [why, file]
get_most_recent_log_file ==
    IF logs_dir = "absent" THEN [why |-> "Logs directory does not exist", file |-> NoFile]
    ELSE IF log_file.exists THEN [why |-> "", file |-> log_file]
    ELSE IF logs_dir = "older" THEN [why |-> "", file |-> OlderLog]
    ELSE [why |-> "No log files found", file |-> NoFile]

\* a resolution that scans the directory when the named file is missing
ResolveLogFile_FallsBack ==
    IF marker = "named" /\ log_file.exists THEN [why |-> "", file |-> log_file]
    ELSE get_most_recent_log_file

\* the file get_logs reads: the one the marker names, or the most recent
ResolveLogFile ==
    IF marker = "named" THEN [why |-> "", file |-> log_file]
    ELSE get_most_recent_log_file

get_logs(limit) ==
    LET n == IF limit = Null THEN DefaultLogLimit ELSE limit
        f == ResolveLogFile
        file_size == FileSize(f.file.lines)
        w == SeekFrom(f.file.lines, SeekPos(file_size))
    IN IF f.why # "" THEN LogRet(f.why, <<>>, limit, "resolve")
       ELSE IF ~f.file.exists THEN LogRet("", <<>>, limit, "missing")
       ELSE IF file_size < LargeFileThreshold
       THEN LogRet("", LastEntries(ParseLines(f.file.lines), n), limit, "small")
       ELSE IF ReadToStringFails(w)
       THEN LogRet("Failed to read log file", <<>>, limit, "large")
       ELSE LogRet("", LastEntries(ParseWindow(w), n), limit, "large")

\* -------------------------------------------------------------- the states
LogLimits == {Null, 1, 2, 10}

\* the logs directory as earlier runs left it; a log file that exists lies
\* in the logs directory and is empty
LogInit ==
    /\ Init
    /\ debug_build = FALSE
    /\ pc[AutoThread] = "finished"
    /\ HistIdle
    /\ ExeIdle
    /\ marker \in {"absent", "unreadable", "named"}
    /\ logs_dir \in {"absent", "empty", "older"}
    /\ log_file \in {NoFile, [exists |-> TRUE, lines |-> <<>>]}
    /\ log_file.exists => logs_dir # "absent"
    /\ marker # "absent" => logs_dir # "absent"
    /\ lret = LogRet("", <<>>, Null, "none")

\* ----------------------------------------------------------------- actions
\* a writer appends a line to the log file
AppendLine(l) ==
    /\ log_file.exists
    /\ Len(log_file.lines) < MaxLines
    /\ log_file' = [log_file EXCEPT !.lines = Append(@, l)]
    /\ UNCHANGED <<marker, logs_dir, lret>>
    /\ UNCHANGED <<vars, histVars, exeVars>>

\* get_logs(limit)
GetLogs(limit) ==
    /\ lret' = get_logs(limit)
    /\ UNCHANGED <<marker, log_file, logs_dir>>
    /\ UNCHANGED <<vars, histVars, exeVars>>

LogNext ==
    \/ \E l \in Lines : AppendLine(l)
    \/ \E limit \in LogLimits : GetLogs(limit)

LogSpec == LogInit /\ [][LogNext]_allVars

\* ======================================================= the search for bot.exe
\* the candidates of subdirectory s of exe_dir
SubBotExe(s) == NumFixedCandidates + 2 * s - 1
SubDistBotExe(s) == NumFixedCandidates + 2 * s

\* the orders in which read_dir may list the subdirectories of exe_dir
SubdirOrders ==
    {o \in [1 .. NumSubdirs -> 1 .. NumSubdirs] :
        \A i, j \in 1 .. NumSubdirs : o[i] = o[j] => i = j}

\* the loop over the entries of exe_dir: the first subdirectory, in the
\* order listed, that holds bot.exe or dist/bot.exe; 0 if there is none
RECURSIVE SearchSubdirs(_, _)
SearchSubdirs(order, exists) ==
    IF order = <<>> THEN 0
    ELSE IF SubBotExe(Head(order)) \in exists THEN SubBotExe(Head(order))
    ELSE IF SubDistBotExe(Head(order)) \in exists THEN SubDistBotExe(Head(order))
    ELSE SearchSubdirs(Tail(order), exists)

\* the fixed candidates from c on, tried in order; checked is checked_paths
\* so far.  current_exe() is asked before every candidate but the first.
RECURSIVE SearchFixed(_, _, _)
SearchFixed(c, fs, checked) ==
    IF c > NumFixedCandidates
    THEN LET sub == IF fs.read_dir_ok THEN SearchSubdirs(fs.order, fs.exists) ELSE 0
         IN IF sub # 0 THEN ExeRet("", sub, Append(checked, sub))
            ELSE ExeRet("bot.exe not found", 0, checked)
    ELSE IF c > 1 /\ ~fs.current_exe_ok
    THEN ExeRet("Failed to get current executable", 0, checked)
    ELSE IF c \in fs.exists THEN ExeRet("", c, Append(checked, c))
    ELSE SearchFixed(c + 1, fs, Append(checked, c))

\* the production branch of start_bot up to the spawn
FindBotExe(fs) ==
    IF ~fs.resource_dir_ok THEN ExeRet("Failed to get resource directory", 0, <<>>)
    ELSE SearchFixed(1, fs, <<>>)

\* the file systems and environments of a production start_bot
ExeInit ==
    /\ Init
    /\ debug_build = FALSE
    /\ pc[AutoThread] = "finished"
    /\ HistIdle
    /\ LogIdle
    /\ \E exists \in SUBSET Candidates, order \in SubdirOrders,
          rd \in BOOLEAN, ce \in BOOLEAN, ls \in BOOLEAN :
         exe_fs = [exists |-> exists, resource_dir_ok |-> rd,
                   current_exe_ok |-> ce, read_dir_ok |-> ls, order |-> order]
    /\ exe_ret = ExeRet("none", 0, <<>>)

\* start_bot in production mode, from lock to return
StartBotProduction(spawn_ok) ==
    /\ lock = Free
    /\ bot_process # 0 \/ launched < MaxProcs
    /\ LET f == FindBotExe(exe_fs)
           pid == launched + 1
       IN IF bot_process # 0
          THEN /\ exe_ret' = ExeRet("Bot is already running", 0, <<>>)
               /\ UNCHANGED <<bot_process, bot_status, launched, worker,
                              startedSinceStop>>
          ELSE IF f.why # ""
          THEN /\ exe_ret' = f
               /\ UNCHANGED <<bot_process, bot_status, launched, worker,
                              startedSinceStop>>
          ELSE IF ~spawn_ok
          THEN /\ exe_ret' = ExeRet("Failed to start bot.exe", f.exe, f.checked)
               /\ UNCHANGED <<bot_process, bot_status, launched, worker,
                              startedSinceStop>>
          ELSE /\ exe_ret' = f
               /\ bot_process' = pid
               /\ bot_status' = "running"
               /\ launched' = pid
               /\ worker' = [worker EXCEPT ![pid] = "alive"]
               /\ startedSinceStop' = TRUE
    /\ result' = IF exe_ret'.why = "" THEN "Bot started successfully"
                 ELSE exe_ret'.why
    /\ lastPoll' = <<>>
    /\ UNCHANGED <<lock, task, pc, held, debug_build, app_exited, exe_fs>>
    /\ UNCHANGED <<histVars, logVars>>

ExeNext == \E spawn_ok \in BOOLEAN : StartBotProduction(spawn_ok)

ExeSpec == ExeInit /\ [][ExeNext]_allVars

\* ------------------------------------------------------------ specifications
\* the supervisor with the history store left alone
SpecInit == Init /\ HistIdle /\ LogIdle /\ ExeIdle

Spec == SpecInit /\ [][Next]_allVars

\* ------------------------------------------------------------ steps of commands
\* thread t completes the body of start_bot / stop_bot / get_bot_status
StartStep(t) == pc[t] = "start" /\ pc'[t] # "start"
StopStep(t) == pc[t] = "stop" /\ pc'[t] # "stop"
StatusStep(t) == pc[t] = "status" /\ pc'[t] # "status"

AliveProcs == {p \in Procs : worker[p] = "alive"}

\* ------------------------------------------------------------------- C1
\* C1: in every reachable state at most one worker process launched by the
\* supervisor is alive.
C1_AtMostOneAlive == Cardinality(AliveProcs) <= 1

\* ------------------------------------------------------------------- C2
\* C2: a start_bot that runs while the label is running or stopping fails with
\* the already-running error and launches no process.
C2_StartRejectedWhenRunningOrStopping ==
    [][\A t \in AllThreads :
         (StartStep(t) /\ bot_status \in {"running", "stopping"})
            => (result' = "Bot is already running" /\ launched' = launched)]_vars

\* ------------------------------------------------------------------- C3
\* C3 as stated: once a start_bot has succeeded and no stop_bot or quit has run
\* since, every further start_bot fails with "Bot is already running", spawns
\* nothing and leaves handle and label unchanged.
C3_Original ==
    [][\A t \in AllThreads :
         (StartStep(t) /\ startedSinceStop)
            => /\ result' = "Bot is already running"
               /\ launched' = launched
               /\ bot_process' = bot_process
               /\ bot_status' = bot_status]_vars

\* C3 amended: once a start_bot has succeeded and no stop_bot or quit has run
\* since, and no get_bot_status has found the worker exited and emptied the
\* slot (the slot still holds the handle), every further start_bot fails with
\* "Bot is already running", spawns nothing and leaves handle and label
\* unchanged.
C3_SecondStartRejected ==
    [][\A t \in AllThreads :
         (StartStep(t) /\ startedSinceStop /\ bot_process # 0)
            => /\ result' = "Bot is already running"
               /\ launched' = launched
               /\ worker' = worker
               /\ bot_process' = bot_process
               /\ bot_status' = bot_status]_vars

\* a second start_bot has been rejected while the first worker is in the slot
C3_Witness ==
    /\ result = "Bot is already running"
    /\ startedSinceStop
    /\ launched = 1
    /\ bot_process = 1

\* ------------------------------------------------------------------- C4
\* C4 as stated: stop_bot fails with the not-running error only when the label
\* is stopped; with any other label it takes the handle, sets the label to
\* stopping and returns success.
C4_Original ==
    [][\A t \in Threads :
         (StopStep(t) /\ bot_status # "stopped")
            => /\ result' = "Bot is stopping"
               /\ bot_process # 0
               /\ bot_process' = 0
               /\ bot_status' = "stopping"]_vars

\* C4 amended: stop_bot fails with the not-running error exactly when the slot
\* holds no handle (label stopped, or stopping with the handle already taken by
\* an earlier stop_bot), leaving the registry as it was; when the slot holds a
\* handle it takes it out in the same critical section in which it sets the
\* label to stopping, hands it to a new kill task and returns success without
\* the worker having been killed or waited for.
C4_StopTakesHeldHandle ==
    [][\A t \in Threads :
         StopStep(t)
            => IF bot_process = 0
               THEN /\ result' = "Bot is not running"
                    /\ bot_process' = 0
                    /\ bot_status' = bot_status
                    /\ task' = task
               ELSE /\ result' = "Bot is stopping"
                    /\ bot_process' = 0
                    /\ bot_status' = "stopping"
                    /\ task' = [task EXCEPT ![bot_process] = "kill"]
                    /\ worker' = worker]_vars

\* stop_bot has returned success and the worker it took is still alive, its
\* kill pending
C4_Witness ==
    /\ result = "Bot is stopping"
    /\ bot_status = "stopping"
    /\ bot_process = 0
    /\ \E p \in Procs : task[p] = "kill" /\ worker[p] = "alive"

\* ------------------------------------------------------------------- C5
\* C5: stop_bot on a stopped supervisor (no handle, label stopped) returns
\* "Bot is not running", spawns no background task and leaves the label stopped
\* and the slot empty.
C5_StopWhenStopped ==
    [][\A t \in Threads :
         (StopStep(t) /\ bot_process = 0 /\ bot_status = "stopped")
            => /\ result' = "Bot is not running"
               /\ task' = task
               /\ bot_status' = "stopped"
               /\ bot_process' = 0]_vars

\* stop_bot has failed on a supervisor that never launched anything
C5_Witness ==
    /\ result = "Bot is not running"
    /\ launched = 0
    /\ bot_status = "stopped"
    /\ bot_process = 0

\* ------------------------------------------------------------------- C6
\* C6: once the label is stopping it becomes stopped only by the step of a
\* background task whose kill attempt has completed.
C6_StoppedOnlyAfterKill ==
    [][(bot_status = "stopping" /\ bot_status' = "stopped")
          => \E p \in Procs : task[p] = "locked" /\ task'[p] = "done"]_vars

\* ------------------------------------------------------------------- C7
\* C7: get_bot_status returns stopped and empties the slot when the held
\* worker has exited, returns running and keeps the handle when it is alive,
\* returns stopped when no handle is held; the value returned is the label
\* stored after the call.
C7_StatusReflectsLiveness ==
    [][\A t \in Threads :
         StatusStep(t)
            => /\ (bot_process # 0 /\ worker[bot_process] # "alive")
                     => (result' = "stopped" /\ bot_process' = 0)
               /\ (bot_process # 0 /\ worker[bot_process] = "alive")
                     => (result' = "running" /\ bot_process' = bot_process)
               /\ (bot_process = 0) => (result' = "stopped" /\ bot_process' = 0)
               /\ result' = bot_status']_vars

\* get_bot_status has found the worker exited and emptied the slot (no stop_bot
\* took the handle)
C7_Witness ==
    /\ lastPoll # <<>>
    /\ lastPoll[Len(lastPoll)] = "stopped"
    /\ bot_process = 0
    /\ launched = 1
    /\ worker[1] = "exited"
    /\ task[1] = "none"

\* ------------------------------------------------------------------- C8
\* C8: a get_bot_status that follows another with nothing in between returns
\* the same label and leaves handle and label as they were; no get_bot_status
\* drops the handle of a live worker.
C8_StatusIdempotent ==
    [][\A t \in Threads :
         StatusStep(t)
            => /\ lastPoll # <<>>
                    => /\ result' = lastPoll[Len(lastPoll)]
                       /\ bot_process' = bot_process
                       /\ bot_status' = bot_status
               /\ (bot_process # 0 /\ bot_process' # bot_process)
                    => worker[bot_process] # "alive"]_vars

\* two get_bot_status calls in a row on a held handle
C8_Witness ==
    /\ Len(lastPoll) = 2
    /\ bot_process # 0

\* ------------------------------------------------------------------- C9
\* C9: once a quit path has run, the slot is empty and the label is stopped.
C9_QuitLeavesStopped ==
    app_exited => (bot_process = 0 /\ bot_status = "stopped")

\* ------------------------------------------------------------------ C10
\* C10: no thread or task executes a kill while it holds the registry mutex.
C10_NoKillUnderLock ==
    /\ \A t \in Threads :
         pc[t] \in {"quit_app_kill", "tray_quit_kill"} => lock # ThreadLock(t)
    /\ \A p \in Procs : task[p] = "kill" => lock # TaskLockId(p)

\* ------------------------------------------------------------------ C11
\* C11: after a successful stop_bot the background task, once its kill has
\* returned, leaves the supervisor Stopped (label stopped, slot empty), and a
\* Stopped supervisor stays so until a start_bot runs.
C11_StopEndsStopped ==
    [][/\ \A p \in Procs :
            (task[p] = "locked" /\ task'[p] = "done")
               => (bot_status' = "stopped" /\ bot_process' = 0)
       /\ (bot_status = "stopped" /\ bot_process = 0
              /\ \A t \in AllThreads : ~StartStep(t))
               => (bot_status' = "stopped" /\ bot_process' = 0)]_vars

\* ------------------------------------------------------ steps of the history
\* a get_sync_history / add_sync_history call runs (the only steps that leave
\* the position of get_last_sync_time alone and return as that command)
GetStep == mpc' = mpc /\ hret'.op = "get"
AddStep == mpc' = mpc /\ hret'.op = "add"

\* ------------------------------------------------------------------- C12
\* C12: no call of get_last_sync_time, get_sync_history or add_sync_history
\* fails because a canonical column is missing from the table, whichever of
\* them is called first on the database file.
C12_NoMissingColumnFailure == hret.why # "no such column"

\* ------------------------------------------------------------------- C13
\* C13: once the reconciliation of get_last_sync_time has run through without
\* error on an existing table, the table has exactly the canonical columns.
C13_ReconciledIsCanonical ==
    (mpc \in {"query", "query_m"} /\ sync_history.exists)
       => sync_history.cols = CanonicalCols

\* ------------------------------------------------------------------- C14
\* C14: the copy of a migration puts into the canonical table exactly one row
\* for each row of the original table, with the same id and the same
\* timestamp, and the drop that completes the migration leaves these rows as
\* they are: the migrated table holds as many rows as the original held.
C14_MigrationKeepsRows ==
    [][/\ (mpc = "copy" /\ mpc' = "drop") =>
            LET copied == sync_history'.rows \ sync_history.rows
            IN /\ Cardinality(copied) = Cardinality(sync_history_old.rows)
               /\ sync_history.rows \subseteq sync_history'.rows
               /\ \A r \in sync_history_old.rows :
                     Cardinality({n \in copied :
                                    /\ n["id"] = r["id"]
                                    /\ n["timestamp"] = r["timestamp"]}) = 1
       /\ (mpc = "drop" /\ mpc' = "query_m") =>
            sync_history'.rows = sync_history.rows]_allVars

\* a migration of a two-row legacy table has completed: both rows are in the
\* canonical table, the value of the old duration column among them
C14_Witness ==
    /\ migrated = 1
    /\ ~sync_history_old.exists
    /\ sync_history.cols = CanonicalCols
    /\ Cardinality(hist) = 2
    /\ \A h \in hist : \E r \in sync_history.rows :
          h = <<r["id"], r["timestamp"]>>
    /\ \E r \in sync_history.rows : r["duration_ms"] # Null

\* ------------------------------------------------------------------- C15
\* C15: get_last_sync_time on a file an earlier call has migrated goes from its
\* schema checks straight to its queries (no rename, create, copy or drop),
\* leaves the tables and their rows as they are in each of its steps and returns
\* no error.
C15_MigrationIdempotent ==
    [][migrated >= 1 =>
         /\ (mpc = "idle" /\ mpc' # "idle") => mpc' = "query"
         /\ mpc \notin MigrationSteps \cup {"alter", "query_m"}
         /\ mpc' # mpc =>
              /\ sync_history' = sync_history
              /\ sync_history_old' = sync_history_old
         /\ (mpc = "query" /\ mpc' = "idle") => hret'.ok]_allVars

\* a later get_last_sync_time on a migrated table holding rows has returned Ok
C15_Witness ==
    /\ migrated = 2
    /\ mpc = "idle"
    /\ hret.op = "last" /\ hret.ok
    /\ sync_history.rows # {}

\* ------------------------------------------------------------------- C16
\* C16: in no reachable state does a canonical sync_history exist beside a
\* sync_history_old that holds a row (by id) the canonical table lacks.
C16_NoPartialMigrationVisible ==
    ~(/\ sync_history.exists
      /\ sync_history_old.exists
      /\ \E r \in sync_history_old.rows : r["id"] \notin Ids(sync_history.rows))

\* ------------------------------------------------------------------- C17
\* C17: the migration runs rename, create, copy, drop in this order; the old
\* table is dropped only when each of its rows is in the canonical table; a
\* statement that fails ends the call with an error; and every row the file
\* held at start stays in sync_history or in sync_history_old.
C17_MigrationLosesNothing ==
    [][/\ (mpc \in MigrationSteps /\ mpc' \notin {mpc, "idle"}) =>
            <<mpc, mpc'>> \in {<<"rename", "create">>, <<"create", "copy">>,
                               <<"copy", "drop">>, <<"drop", "query_m">>}
       /\ (sync_history_old.exists /\ ~sync_history_old'.exists) =>
            \A r \in sync_history_old.rows : \E n \in sync_history.rows :
               n["id"] = r["id"] /\ n["timestamp"] = r["timestamp"]
       /\ (mpc \in MigrationSteps /\ mpc' = "idle") =>
            (hret'.op = "last" /\ ~hret'.ok)
       /\ \A h \in hist :
            \E r \in sync_history'.rows \cup sync_history_old'.rows :
               h = <<r["id"], r["timestamp"]>>]_allVars

\* the copy of a migration has failed and the call has returned its error: the
\* rows are still in sync_history_old, beside the empty canonical table
C17_Witness ==
    /\ mpc = "idle"
    /\ hret.op = "last" /\ ~hret.ok
    /\ sync_history.exists /\ sync_history.rows = {}
    /\ sync_history_old.exists /\ sync_history_old.rows # {}
    /\ \A h \in hist : \E r \in sync_history_old.rows :
          h = <<r["id"], r["timestamp"]>>

\* ------------------------------------------------------------------- C18
\* C18: a successful add_sync_history increases the row count of sync_history
\* by exactly one and leaves every stored row as it was; a failed one leaves
\* all rows unchanged; get_sync_history never changes the set of rows; neither
\* touches the rows of sync_history_old.
C18_AppendOnly ==
    [][/\ (AddStep /\ hret'.ok) =>
            /\ Cardinality(sync_history'.rows) = Cardinality(sync_history.rows) + 1
            /\ sync_history.rows \subseteq sync_history'.rows
       /\ (AddStep /\ ~hret'.ok) => sync_history'.rows = sync_history.rows
       /\ GetStep => sync_history'.rows = sync_history.rows
       /\ (AddStep \/ GetStep) => sync_history_old' = sync_history_old]_allVars

\* an add_sync_history has succeeded on a table that held a row
C18_Witness ==
    /\ hret.op = "add" /\ hret.ok
    /\ lastAppend # <<>>
    /\ Cardinality(sync_history.rows) = 2
    /\ \E r \in sync_history.rows : r["id"] = lastAppend[2]
    /\ \E r \in sync_history.rows : <<r["id"], r["timestamp"]>> \in hist

\* ------------------------------------------------------------------- C19
\* C19 as stated: appending an entry with a valid timestamp, a sync_type and a
\* success flag, optional fields absent, and then calling get_sync_history
\* with limit 1 returns exactly that entry: same sync_type, success and
\* optional fields, and a timestamp of the same instant in milliseconds.
C19_Original ==
    [][(/\ GetStep /\ hret'.ok /\ hret'.limit = 1
        /\ lastAppend # <<>>
        /\ lastAppend[1].timestamp.valid
        /\ lastAppend[1].runs_added = Null)
          => /\ Len(hret'.val) = 1
             /\ hret'.val[1].sync_type = lastAppend[1].sync_type
             /\ hret'.val[1].success = lastAppend[1].success
             /\ hret'.val[1].runs_added = lastAppend[1].runs_added
             /\ hret'.val[1].characters_processed
                   = lastAppend[1].characters_processed
             /\ hret'.val[1].duration = lastAppend[1].duration
             /\ hret'.val[1].error = lastAppend[1].error
             /\ InstantMs(hret'.val[1].timestamp)
                   = InstantMs(lastAppend[1].timestamp)]_allVars

\* C19 amended: appending an entry with a valid timestamp, a sync_type and a
\* success flag, optional fields absent, whose instant in milliseconds is
\* greater than the timestamp of every other stored row, and then calling
\* get_sync_history with limit 1 returns one entry with the same sync_type
\* and success, no duration and no error text, runs_added and
\* characters_processed 0 (not absent), and a timestamp, printed in UTC, of
\* the same instant in milliseconds.
C19_AppendThenQuery ==
    [][(/\ GetStep /\ hret'.ok /\ hret'.limit = 1
        /\ lastAppend # <<>>
        /\ lastAppend[1].timestamp.valid
        /\ lastAppend[1].runs_added = Null
        /\ \A r \in sync_history.rows :
              r["id"] # lastAppend[2] =>
                 r["timestamp"] < InstantMs(lastAppend[1].timestamp))
          => /\ Len(hret'.val) = 1
             /\ hret'.val[1].sync_type = lastAppend[1].sync_type
             /\ hret'.val[1].success = lastAppend[1].success
             /\ hret'.val[1].runs_added = 0
             /\ hret'.val[1].characters_processed = 0
             /\ hret'.val[1].duration = Null
             /\ hret'.val[1].error = NullText
             /\ hret'.val[1].timestamp.off = 0
             /\ InstantMs(hret'.val[1].timestamp)
                   = InstantMs(lastAppend[1].timestamp)]_allVars

\* an entry stamped with a UTC offset has been appended to a table holding an
\* older row, and get_sync_history with limit 1 has returned one entry
C19_Witness ==
    /\ lastAppend # <<>>
    /\ lastAppend[1].timestamp.valid
    /\ lastAppend[1].timestamp.off # 0
    /\ lastAppend[1].runs_added = Null
    /\ Cardinality(sync_history.rows) = 2
    /\ \A r \in sync_history.rows :
          r["id"] # lastAppend[2] =>
             r["timestamp"] < InstantMs(lastAppend[1].timestamp)
    /\ hret.op = "get" /\ hret.ok /\ hret.limit = 1
    /\ Len(hret.val) = 1
    /\ hret.val[1].runs_added = 0

\* ------------------------------------------------------------------- C20
\* C20: a get_sync_history(limit) that succeeds returns min(limit, row count)
\* entries (limit 4 when none is given), the i-th carrying the i-th greatest
\* stored timestamp, so ordered by timestamp descending; when the database
\* file does not exist it returns the empty sequence without error and
\* without creating the file.
C20_NewestFirst ==
    [][GetStep =>
         IF ~db_file
         THEN hret'.ok /\ hret'.val = <<>> /\ db_file' = FALSE
         ELSE hret'.ok =>
                LET rows == sync_history'.rows
                    n == IF hret'.limit = Null THEN 4 ELSE hret'.limit
                    val == hret'.val
                IN /\ Len(val) = IF n < Cardinality(rows) THEN n
                                  ELSE Cardinality(rows)
                   /\ \A i \in 1 .. Len(val) :
                        LET ts == InstantMs(val[i].timestamp)
                        IN /\ Cardinality({r \in rows : r["timestamp"] > ts}) < i
                           /\ Cardinality({r \in rows : r["timestamp"] >= ts}) >= i
                   /\ \A i, j \in 1 .. Len(val) :
                        i < j => InstantMs(val[i].timestamp)
                                    >= InstantMs(val[j].timestamp)]_allVars

\* get_sync_history with limit 1 has returned the newer of two stored rows
C20_Witness ==
    /\ hret.op = "get" /\ hret.ok /\ hret.limit = 1
    /\ Len(hret.val) = 1
    /\ Cardinality(sync_history.rows) = 2
    /\ \E r \in sync_history.rows :
          r["timestamp"] < InstantMs(hret.val[1].timestamp)

\* ------------------------------------------------------- steps of get_logs
\* a get_logs call returns (it changes nothing but what it returns)
LogStep == lret' # lret

\* the lines of the file the call reads, and the records it parses of them
LinesRead == ResolveLogFile.file.lines
ParsedRecords ==
    IF FileSize(LinesRead) < LargeFileThreshold THEN ParseLines(LinesRead)
    ELSE ParseWindow(SeekFrom(LinesRead, SeekPos(FileSize(LinesRead))))

\* ------------------------------------------------------------------- C21
\* C21: a get_logs(N) that reads a file returns the last min(N, P) of the P
\* records it parsed, in file order; N is 100 when no limit is given.
C21_LastOfParsed ==
    [][(LogStep /\ lret'.ok /\ lret'.path \in {"small", "large"}) =>
         LET n == IF lret'.limit = Null THEN 100 ELSE lret'.limit
             P == Len(ParsedRecords)
             val == lret'.val
         IN /\ Len(val) = IF n < P THEN n ELSE P
            /\ \A i \in 1 .. Len(val) :
                 val[i] = ParsedRecords[P - Len(val) + i]]_allVars

\* get_logs with limit 1 has returned the last of three parsed records, which
\* differs from the first
C21_Witness ==
    /\ lret.ok /\ lret.path = "small" /\ lret.limit = 1
    /\ Len(ParsedRecords) = 3
    /\ lret.val = <<ParsedRecords[3]>>
    /\ ParsedRecords[3] # ParsedRecords[1]

\* ------------------------------------------------------------------- C22
\* C22: get_logs(N) on a file of any size of whose lines K < N parse returns
\* exactly K records and no error.
C22_FewerThanLimit ==
    [][(LogStep /\ lret'.path \in {"small", "large"}) =>
         LET n == IF lret'.limit = Null THEN 100 ELSE lret'.limit
             K == Len(ParseLines(LinesRead))
         IN K < n => (lret'.ok /\ Len(lret'.val) = K)]_allVars

\* ------------------------------------------------------------------- C23
\* C23: on a file at or above the threshold get_logs(10) returns what parsing
\* the whole file would give as its last 10 records, but for at most one
\* record missing at the front.
C23_WindowEqualsWhole ==
    [][(LogStep /\ lret'.path = "large" /\ lret'.limit = 10) =>
         LET whole == LastEntries(ParseLines(LinesRead), 10)
             val == lret'.val
         IN /\ lret'.ok
            /\ Len(val) <= Len(whole)
            /\ Len(whole) - Len(val) <= 1
            /\ \A i \in 1 .. Len(val) :
                 val[i] = whole[Len(whole) - Len(val) + i]]_allVars

\* ------------------------------------------------------------------- C24
\* C24: when the marker names a path at which no file exists, get_logs
\* returns the empty sequence and no error, whatever the logs directory
\* holds.
C24_MissingTargetIsEmpty ==
    [][(LogStep /\ marker = "named" /\ ~log_file.exists) =>
         (lret'.ok /\ lret'.val = <<>>)]_allVars

\* get_logs has returned the empty sequence for a marker naming a missing
\* file while an older log file lies in the logs directory
C24_Witness ==
    /\ marker = "named" /\ ~log_file.exists
    /\ logs_dir = "older"
    /\ lret.path = "missing" /\ lret.ok /\ lret.val = <<>>

\* ------------------------------------------------------------------- C25
\* C25: a get_logs that reads a file does not fail, and each record of its
\* result is the record of a line of the file that holds a record object.
C25_OnlyRecordsBecomeEntries ==
    [][(LogStep /\ lret'.path \in {"small", "large"}) =>
         /\ lret'.ok
         /\ \A i \in 1 .. Len(lret'.val) :
              \E j \in 1 .. Len(LinesRead) :
                 /\ LinesRead[j].json.type = "object"
                 /\ lret'.val[i] = parse_log_entry(LinesRead[j].json)]_allVars

\* ------------------------------------------------------------------- C27
\* C27: on a file at or above the threshold get_logs returns successfully
\* wherever the seek lands, and when it lands inside a line its result holds
\* records of the lines after that line only.
C27_CutLineDiscarded ==
    [][(LogStep /\ lret'.path = "large") =>
         LET w == SeekFrom(LinesRead, SeekPos(FileSize(LinesRead)))
             after == ParseLines(Tail(w.lines))
             val == lret'.val
         IN /\ lret'.ok
            /\ w.k > 0 =>
                 /\ Len(val) <= Len(after)
                 /\ \A i \in 1 .. Len(val) :
                      val[i] = after[Len(after) - Len(val) + i]]_allVars

\* ------------------------------------------------------------------- C26
\* the candidates in the order start_bot tries them, for the order in which
\* the subdirectories are listed
RECURSIVE SubdirCandidates(_)
SubdirCandidates(order) ==
    IF order = <<>> THEN <<>>
    ELSE <<SubBotExe(Head(order)), SubDistBotExe(Head(order))>>
         \o SubdirCandidates(Tail(order))
CandidateOrder(order) ==
    [i \in 1 .. NumFixedCandidates |-> i] \o SubdirCandidates(order)

\* C26: a production start_bot with an empty slot, in an environment that
\* yields its directories and lists exe-dir, picks the first existing
\* candidate in the order resource-dir/bot.exe, exe-dir/bot.exe,
\* exe-dir/resources/bot.exe, exe-dir/_up_/dist/bot.exe, then per subdirectory
\* sub/bot.exe, sub/dist/bot.exe; it fails with the not-found error exactly
\* when no candidate exists, and that error lists the paths checked; a
\* failure leaves slot and label as they were.
C26_FirstExistingCandidate ==
    [][(/\ exe_ret' # exe_ret /\ bot_process = 0
        /\ exe_fs.resource_dir_ok /\ exe_fs.current_exe_ok
        /\ exe_fs.read_dir_ok) =>
         LET ord == CandidateOrder(exe_fs.order)
             hits == {i \in 1 .. Len(ord) : ord[i] \in exe_fs.exists}
         IN /\ hits # {} =>
                 /\ exe_ret'.why \in {"", "Failed to start bot.exe"}
                 /\ \E i \in hits : /\ \A j \in hits : i <= j
                                    /\ exe_ret'.exe = ord[i]
            /\ (exe_ret'.why = "bot.exe not found") <=> (hits = {})
            /\ exe_ret'.why = "bot.exe not found" =>
                 {exe_ret'.checked[i] : i \in 1 .. Len(exe_ret'.checked)}
                    = {ord[i] : i \in 1 .. Len(ord)}
            /\ exe_ret'.why # "" =>
                 (bot_process' = bot_process /\ bot_status' = bot_status)]_allVars

\* ------------------------------------------------------------------- C28
\* the holders of handle p: the slot, the kill task stop_bot gave it to (until
\* the task ends), a quit path that took it (until its kill has returned)
Holders(process, tasks, helds, p) ==
    (IF process = p THEN {<<"slot", 0>>} ELSE {})
       \cup (IF tasks[p] \in {"kill", "killed", "locked"}
             THEN {<<"task", p>>} ELSE {})
       \cup {<<"thread", t>> : t \in {u \in AllThreads : helds[u] = p}}

C29_LabelImpliesHandle ==
    lock = Free =>
       /\ bot_status = "running" => bot_process # 0
       /\ bot_status = "stopping" =>
             \E p \in Procs : task[p] \in {"kill", "killed", "locked"}

\* ------------------------------------------------------------------- C30
\* C30: in every state in which no thread holds the registry lock, a slot
\* that holds a handle is labelled running.
C30_HandleImpliesRunning ==
    (lock = Free /\ bot_process # 0) => bot_status = "running"

====
